---- MODULE Spec2Model ----
(***************************************************************************)
(* Model of the coin identifier's Home page (src/src/pages/Home.tsx):      *)
(*   - the upload/analysis controller: the React state (image, analysis,   *)
(*     loading, error), the mount effect loadDefaultContent, the handlers  *)
(*     handleImageUpload and handleAnalyze, the "Identify Coin" button,    *)
(*     and the completions of the FileReader reads, the fetch and the      *)
(*     analyzeImage promises, each one JavaScript task;                    *)
(*   - the response formatter formatAnalysis, a pure function over the     *)
(*     characters of the analysis text.                                    *)
(* Strings the code inspects character by character (MIME types, analysis  *)
(* lines) are sequences of one-character strings.                          *)
(***************************************************************************)
EXTENDS Integers, Sequences, FiniteSets, TLC

VARIABLES
    image,        \* useState image: NoImage or a data URI
    analysis,     \* useState analysis: the analysis text
    loading,      \* useState loading
    error,        \* useState error: Null or a message
    defaultPc,    \* position of loadDefaultContent
    uploads,      \* files whose FileReader read was started, in order
    pendingReads, \* indices into uploads of the reads still outstanding
    calls,        \* analyzeImage invocations, in order
    inflight,     \* indices into calls of the promises still pending
    settled,      \* history: the outcome of each settled analyzeImage promise
    lastSettled,  \* history: the call whose promise settled last, 0 if none
    solo,         \* history: the upload made alone, 0 if none
    text,         \* formatter input
    blocks,       \* formatter output of the first render
    blocks2,      \* formatter output of the second render
    fpc           \* position of the formatter run

ctlVars == <<image, analysis, loading, error, defaultPc, uploads, pendingReads,
             calls, inflight, settled, lastSettled, solo>>
fmtVars == <<text, blocks, blocks2, fpc>>
vars == <<image, analysis, loading, error, defaultPc, uploads, pendingReads,
          calls, inflight, settled, lastSettled, solo, text, blocks, blocks2, fpc>>

----------------------------------------------------------------------------
(* Bounds of the model *)

MaxUploads == 1
MaxCalls == 2
MaxLen == 5

----------------------------------------------------------------------------
(* Values *)

(* null in the error state; messages are non-empty strings. *)
Null == "null"
(* null in the image state; a data URI is never the empty sequence. *)
NoImage == <<>>

MiB == 1024 * 1024

DEFAULT_ANALYSIS == "DEFAULT_ANALYSIS"

coinPrompt == "Analyze this coin image for educational purposes and provide the following information: ..."

LoadErrorMsg == "Failed to load default image"
TypeErrorMsg == "Please upload a valid image file"
SizeErrorMsg == "Image size should be less than 20MB"
ReadErrorMsg == "Failed to read the image file. Please try again."
FallbackMsg == "Failed to analyze image. Please try again."

ImagePrefix == <<"i", "m", "a", "g", "e", "/">>
PngType == <<"i", "m", "a", "g", "e", "/", "p", "n", "g">>
JpegType == <<"i", "m", "a", "g", "e", "/", "j", "p", "e", "g">>
TextType == <<"t", "e", "x", "t", "/", "p", "l", "a", "i", "n">>

(* A File: its type, its size in bytes, and the leading bytes of its content. *)
Files ==
    { [type |-> PngType, size |-> MiB, bytes |-> <<137, 80>>],
      [type |-> JpegType, size |-> 20 * MiB, bytes |-> <<255>>],
      [type |-> JpegType, size |-> 20 * MiB + 1, bytes |-> <<255>>],
      [type |-> PngType, size |-> 25 * MiB, bytes |-> <<137, 80>>],
      [type |-> TextType, size |-> 25 * MiB, bytes |-> <<104>>] }

(* e.target.files: empty, or one selected file. *)
FileLists == {<<>>} \cup {<<f>> : f \in Files}

(* The blob of the bundled asset /default-coin.jpeg. *)
DefaultBlob == [type |-> JpegType, size |-> 3, bytes |-> <<255, 216, 255>>]

(* analyzeImage is a black box: it resolves with some text, or rejects with *)
(* an Error carrying a human-readable message, or with a value that is not  *)
(* an Error.                                                                *)
Results == {"result A", "result B"}
NoThrow == [isError |-> FALSE, message |-> ""]
Thrown ==
    { [isError |-> TRUE, message |-> "quota exceeded"],
      [isError |-> FALSE, message |-> "not an Error"] }

----------------------------------------------------------------------------
(* FileReader.readAsDataURL *)

B64Alphabet ==
    <<"A", "B", "C", "D", "E", "F", "G", "H", "I", "J", "K", "L", "M",
      "N", "O", "P", "Q", "R", "S", "T", "U", "V", "W", "X", "Y", "Z",
      "a", "b", "c", "d", "e", "f", "g", "h", "i", "j", "k", "l", "m",
      "n", "o", "p", "q", "r", "s", "t", "u", "v", "w", "x", "y", "z",
      "0", "1", "2", "3", "4", "5", "6", "7", "8", "9", "+", "/">>

B64(sextet) == B64Alphabet[sextet + 1]

RECURSIVE Base64(_)
Base64(bytes) ==
    IF Len(bytes) = 0 THEN <<>>
    ELSE IF Len(bytes) = 1 THEN
        <<B64(bytes[1] \div 4), B64((bytes[1] % 4) * 16), "=", "=">>
    ELSE IF Len(bytes) = 2 THEN
        <<B64(bytes[1] \div 4),
          B64((bytes[1] % 4) * 16 + bytes[2] \div 16),
          B64((bytes[2] % 16) * 4), "=">>
    ELSE
        <<B64(bytes[1] \div 4),
          B64((bytes[1] % 4) * 16 + bytes[2] \div 16),
          B64((bytes[2] % 16) * 4 + bytes[3] \div 64),
          B64(bytes[3] % 64)>> \o Base64(SubSeq(bytes, 4, Len(bytes)))

DataURI(file) ==
    <<"data:">> \o file.type \o <<";base64,">> \o Base64(file.bytes)

----------------------------------------------------------------------------
(* Outstanding work *)

(* Nothing is outstanding: the default load has ended, no read is pending, *)
(* no analyzeImage promise is pending.                                     *)
Quiescent == defaultPc = "done" /\ pendingReads = {} /\ inflight = {}

----------------------------------------------------------------------------
(* The mount effect: loadDefaultContent *)

LoadDefault ==
    /\ defaultPc = "idle"
    /\ loading' = TRUE
    /\ defaultPc' = "fetching"
    /\ UNCHANGED <<image, analysis, error, uploads, pendingReads, calls,
                   inflight, settled, lastSettled, solo>>
    /\ UNCHANGED fmtVars

(* The catch block. *)
DefaultCatch ==
    /\ error' = LoadErrorMsg
    /\ loading' = FALSE
    /\ defaultPc' = "done"
    /\ UNCHANGED <<image, analysis, uploads, pendingReads, calls, inflight,
                   settled, lastSettled, solo>>
    /\ UNCHANGED fmtVars

(* await fetch(DEFAULT_IMAGE): a response that is ok, one that is not, or *)
(* a rejection.                                                          *)
DefaultFetchDone(outcome) ==
    /\ defaultPc = "fetching"
    /\ IF outcome = "ok"
       THEN /\ defaultPc' = "blob"
            /\ UNCHANGED <<image, analysis, loading, error, uploads,
                           pendingReads, calls, inflight, settled, lastSettled, solo>>
            /\ UNCHANGED fmtVars
       ELSE DefaultCatch

(* await response.blob(), then reader.readAsDataURL(blob). *)
DefaultBlobDone(ok) ==
    /\ defaultPc = "blob"
    /\ IF ok
       THEN /\ defaultPc' = "reading"
            /\ UNCHANGED <<image, analysis, loading, error, uploads,
                           pendingReads, calls, inflight, settled, lastSettled, solo>>
            /\ UNCHANGED fmtVars
       ELSE DefaultCatch

DefaultReadDone_CallsAnalyzer(ok) ==
    /\ defaultPc = "reading"
    /\ defaultPc' = "done"
    /\ image' = IF ok THEN DataURI(DefaultBlob) ELSE NoImage
    /\ analysis' = DEFAULT_ANALYSIS
    /\ loading' = TRUE
    /\ error' = Null
    /\ calls' = Append(calls, [img |-> image', prompt |-> coinPrompt,
                               from |-> 0, shown |-> image'])
    /\ inflight' = inflight \cup {Len(calls) + 1}
    /\ UNCHANGED <<uploads, pendingReads, settled, lastSettled, solo>>
    /\ UNCHANGED fmtVars

(* The reader's events, one task: on failure onerror runs and then        *)
(* onloadend, with reader.result null; on success onloadend alone.        *)
DefaultReadDone(ok) ==
    /\ defaultPc = "reading"
    /\ defaultPc' = "done"
    /\ error' = IF ok THEN error ELSE LoadErrorMsg
    /\ image' = IF ok THEN DataURI(DefaultBlob) ELSE NoImage
    /\ analysis' = DEFAULT_ANALYSIS
    /\ loading' = FALSE
    /\ UNCHANGED <<uploads, pendingReads, calls, inflight, settled, lastSettled, solo>>
    /\ UNCHANGED fmtVars

----------------------------------------------------------------------------
(* handleImageUpload's validation *)

StartsWith(s, prefix) ==
    /\ Len(s) >= Len(prefix)
    /\ \A i \in 1..Len(prefix) : s[i] = prefix[i]

IsImageType(file) == StartsWith(file.type, ImagePrefix)

TooLarge_Geq(file) == file.size >= 20 * 1024 * 1024

TooLarge(file) == file.size > 20 * 1024 * 1024

----------------------------------------------------------------------------
(* handleAnalyze *)

ErrorMessageOf_Fallback(err) == FallbackMsg

ErrorMessageOf(err) == IF err.isError THEN err.message ELSE FallbackMsg

(* The synchronous part: setLoading(true), setError(null), analyzeImage(). *)
(* shown records the image displayed once the handler has run.             *)
StartAnalyze(imageData, from) ==
    /\ loading' = TRUE
    /\ error' = Null
    /\ calls' = Append(calls, [img |-> imageData, prompt |-> coinPrompt,
                               from |-> from, shown |-> image'])
    /\ inflight' = inflight \cup {Len(calls) + 1}

(* History: the outcome of call c, kept for the calls that have settled. *)
Settle(c, outcome) ==
    /\ settled' = [i \in DOMAIN settled \cup {c} |->
                       IF i = c THEN outcome ELSE settled[i]]
    /\ lastSettled' = c

AnalyzeResolved_Guarded(c, result) ==
    /\ c \in inflight
    /\ inflight' = inflight \ {c}
    /\ analysis' = IF c = Len(calls) THEN result ELSE analysis
    /\ loading' = FALSE
    /\ Settle(c, [ok |-> TRUE, result |-> result, thrown |-> NoThrow])
    /\ UNCHANGED <<image, error, defaultPc, uploads, pendingReads, calls, solo>>
    /\ UNCHANGED fmtVars

AnalyzeResolved_KeepsText(c, result) ==
    /\ c \in inflight
    /\ inflight' = inflight \ {c}
    /\ loading' = FALSE
    /\ Settle(c, [ok |-> TRUE, result |-> result, thrown |-> NoThrow])
    /\ UNCHANGED <<image, analysis, error, defaultPc, uploads, pendingReads,
                   calls, solo>>
    /\ UNCHANGED fmtVars

(* The promise resolves: setAnalysis(result), then finally. *)
AnalyzeResolved(c, result) ==
    /\ c \in inflight
    /\ inflight' = inflight \ {c}
    /\ analysis' = result
    /\ loading' = FALSE
    /\ Settle(c, [ok |-> TRUE, result |-> result, thrown |-> NoThrow])
    /\ UNCHANGED <<image, error, defaultPc, uploads, pendingReads, calls, solo>>
    /\ UNCHANGED fmtVars

AnalyzeRejected_NoFinally(c, err) ==
    /\ c \in inflight
    /\ inflight' = inflight \ {c}
    /\ error' = ErrorMessageOf(err)
    /\ Settle(c, [ok |-> FALSE, result |-> "", thrown |-> err])
    /\ UNCHANGED <<image, analysis, loading, defaultPc, uploads, pendingReads,
                   calls, solo>>
    /\ UNCHANGED fmtVars

(* The promise rejects: the catch block, then finally. *)
AnalyzeRejected(c, err) ==
    /\ c \in inflight
    /\ inflight' = inflight \ {c}
    /\ error' = ErrorMessageOf(err)
    /\ loading' = FALSE
    /\ Settle(c, [ok |-> FALSE, result |-> "", thrown |-> err])
    /\ UNCHANGED <<image, analysis, defaultPc, uploads, pendingReads, calls,
                   solo>>
    /\ UNCHANGED fmtVars

(* The "Identify Coin" button: rendered when image is set, disabled while *)
(* loading.                                                               *)
Reanalyze ==
    /\ image /= NoImage
    /\ ~loading
    /\ Len(calls) < MaxCalls
    /\ image' = image
    /\ StartAnalyze(image, 0)
    /\ solo' = 0
    /\ UNCHANGED <<analysis, defaultPc, uploads, pendingReads, settled, lastSettled>>
    /\ UNCHANGED fmtVars

----------------------------------------------------------------------------
(* handleImageUpload *)

HandleImageUpload(files) ==
    /\ defaultPc /= "idle"
    /\ IF Len(files) = 0
       THEN /\ solo' = 0
            /\ UNCHANGED <<image, analysis, loading, error, defaultPc, uploads,
                           pendingReads, calls, inflight, settled, lastSettled>>
       ELSE LET file == files[1] IN
            IF ~IsImageType(file)
            THEN /\ error' = TypeErrorMsg
                 /\ solo' = 0
                 /\ UNCHANGED <<image, analysis, loading, defaultPc, uploads,
                                pendingReads, calls, inflight, settled, lastSettled>>
            ELSE IF TooLarge(file)
            THEN /\ error' = SizeErrorMsg
                 /\ solo' = 0
                 /\ UNCHANGED <<image, analysis, loading, defaultPc, uploads,
                                pendingReads, calls, inflight, settled, lastSettled>>
            ELSE /\ Len(uploads) < MaxUploads
                 /\ uploads' = Append(uploads, file)
                 /\ pendingReads' = pendingReads \cup {Len(uploads) + 1}
                 /\ solo' = IF Quiescent THEN Len(uploads) + 1 ELSE 0
                 /\ UNCHANGED <<image, analysis, loading, error, defaultPc,
                                calls, inflight, settled, lastSettled>>
    /\ UNCHANGED fmtVars

UploadReadDone_KeepsError(u, ok) ==
    /\ u \in pendingReads
    /\ Len(calls) < MaxCalls
    /\ pendingReads' = pendingReads \ {u}
    /\ image' = IF ok THEN DataURI(uploads[u]) ELSE NoImage
    /\ loading' = TRUE
    /\ error' = error
    /\ calls' = Append(calls, [img |-> image', prompt |-> coinPrompt,
                               from |-> u, shown |-> image'])
    /\ inflight' = inflight \cup {Len(calls) + 1}
    /\ UNCHANGED <<analysis, defaultPc, uploads, settled, lastSettled, solo>>
    /\ UNCHANGED fmtVars

(* The reader's events, one task: on failure onerror runs and then         *)
(* onloadend, with reader.result null; on success onloadend alone.         *)
(* onerror's setError is overwritten by onloadend's setError(null).        *)
UploadReadDone(u, ok) ==
    /\ u \in pendingReads
    /\ Len(calls) < MaxCalls
    /\ pendingReads' = pendingReads \ {u}
    /\ image' = IF ok THEN DataURI(uploads[u]) ELSE NoImage
    /\ StartAnalyze(image', u)
    /\ UNCHANGED <<analysis, defaultPc, uploads, settled, lastSettled, solo>>
    /\ UNCHANGED fmtVars

----------------------------------------------------------------------------
(* formatAnalysis *)

(* The backquote character, which a TLA+ string cannot hold. *)
Backquote == "backquote"
MarkdownChars == {"*", "_", "#", Backquote}
IsSpace(c) == c \in {" ", "\t", "\r", "\n"}
IsDigit(c) == c \in {"0", "1", "2", "3", "4", "5", "6", "7", "8", "9"}

(* String.indexOf: the first position of ch in s, 0 if there is none. *)
RECURSIVE IndexOf(_, _)
IndexOf(s, ch) ==
    IF Len(s) = 0 THEN 0
    ELSE IF Head(s) = ch THEN 1
    ELSE LET r == IndexOf(Tail(s), ch) IN IF r = 0 THEN 0 ELSE r + 1

Includes(s, ch) == IndexOf(s, ch) /= 0

(* String.split(ch): the pieces between the occurrences of ch. *)
RECURSIVE SplitOn(_, _)
SplitOn(s, ch) ==
    LET i == IndexOf(s, ch) IN
    IF i = 0 THEN <<s>>
    ELSE <<SubSeq(s, 1, i - 1)>> \o SplitOn(SubSeq(s, i + 1, Len(s)), ch)

(* Array.join(ch) *)
RECURSIVE Join(_, _)
Join(parts, ch) ==
    IF Len(parts) = 0 THEN <<>>
    ELSE IF Len(parts) = 1 THEN parts[1]
    ELSE parts[1] \o <<ch>> \o Join(Tail(parts), ch)

RECURSIVE TrimStart(_)
TrimStart(s) ==
    IF Len(s) > 0 /\ IsSpace(Head(s)) THEN TrimStart(Tail(s)) ELSE s

RECURSIVE TrimEnd(_)
TrimEnd(s) ==
    IF Len(s) > 0 /\ IsSpace(s[Len(s)])
    THEN TrimEnd(SubSeq(s, 1, Len(s) - 1)) ELSE s

Trim(s) == TrimEnd(TrimStart(s))

(* line.replace(/[*_#backquote]/g, '') *)
StripMarkdown(line) == SelectSeq(line, LAMBDA c : c \notin MarkdownChars)

(* The length of the match of \d+ at the start of s. *)
RECURSIVE LeadingDigits(_)
LeadingDigits(s) ==
    IF Len(s) > 0 /\ IsDigit(Head(s)) THEN 1 + LeadingDigits(Tail(s)) ELSE 0

(* /^\d+\./.test(s) *)
IsHeader(s) ==
    LET k == LeadingDigits(s) IN k >= 1 /\ Len(s) > k /\ s[k + 1] = "."

(* s.replace(/^\d+\.\s*/, '') for an s that matches. *)
HeaderTitle(s) ==
    TrimStart(SubSeq(s, LeadingDigits(s) + 2, Len(s)))

Block(kind, key, label, body) ==
    [kind |-> kind, key |-> key, label |-> label, text |-> body]

(* The null the map callback returns for an empty line. *)
NullBlock == Block("null", 0 - 1, <<>>, <<>>)

FormatLine_DropsColons(line, index) ==
    LET cleanLine == Trim(StripMarkdown(line)) IN
    IF cleanLine = <<>> THEN NullBlock
    ELSE IF IsHeader(cleanLine) THEN
        Block("SectionHeader", index, <<>>, HeaderTitle(cleanLine))
    ELSE IF StartsWith(cleanLine, <<"-">>) /\ Includes(cleanLine, ":") THEN
        LET parts == SplitOn(SubSeq(cleanLine, 2, Len(cleanLine)), ":")
        IN Block("LabeledField", index, Trim(parts[1]), Trim(parts[2]))
    ELSE IF StartsWith(cleanLine, <<"-">>) THEN
        Block("BulletItem", index, <<>>,
              Trim(SubSeq(cleanLine, 2, Len(cleanLine))))
    ELSE Block("Paragraph", index, <<>>, cleanLine)

(* The map callback: the element for one line, keyed by the line's index. *)
FormatLine(line, index) ==
    LET cleanLine == Trim(StripMarkdown(line)) IN
    IF cleanLine = <<>> THEN NullBlock
    ELSE IF IsHeader(cleanLine) THEN
        Block("SectionHeader", index, <<>>, HeaderTitle(cleanLine))
    ELSE IF StartsWith(cleanLine, <<"-">>) /\ Includes(cleanLine, ":") THEN
        LET parts == SplitOn(SubSeq(cleanLine, 2, Len(cleanLine)), ":")
            value == Trim(Join(Tail(parts), ":"))
        IN Block("LabeledField", index, Trim(parts[1]), value)
    ELSE IF StartsWith(cleanLine, <<"-">>) THEN
        Block("BulletItem", index, <<>>,
              Trim(SubSeq(cleanLine, 2, Len(cleanLine))))
    ELSE Block("Paragraph", index, <<>>, cleanLine)

formatAnalysis_DropsEmptyBody(t) ==
    LET lines == SplitOn(t, "\n")
        mapped == [i \in 1..Len(lines) |-> FormatLine(lines[i], i - 1)]
    IN SelectSeq(mapped, LAMBDA b : b.text /= <<>>)

(* text.split('\n').map(...).filter(Boolean) *)
formatAnalysis(t) ==
    LET lines == SplitOn(t, "\n")
        mapped == [i \in 1..Len(lines) |-> FormatLine(lines[i], i - 1)]
    IN SelectSeq(mapped, LAMBDA b : b /= NullBlock)

(* The characters the analysis texts of the model are made of. *)
Chars == {"1", ".", "-", ":", " ", "*", "a", "\n"}

Texts == UNION {[1..n -> Chars] : n \in 0..MaxLen}

(* A render of the page: formatAnalysis(analysis) is computed anew. *)
Render ==
    /\ fpc = "input"
    /\ blocks' = formatAnalysis(text)
    /\ fpc' = "rendered"
    /\ UNCHANGED <<text, blocks2>>
    /\ UNCHANGED ctlVars

Rerender ==
    /\ fpc = "rendered"
    /\ blocks2' = formatAnalysis(text)
    /\ fpc' = "rerendered"
    /\ UNCHANGED <<text, blocks>>
    /\ UNCHANGED ctlVars

----------------------------------------------------------------------------
(* The controller *)

Init ==
    /\ image = NoImage
    /\ analysis = ""
    /\ loading = FALSE
    /\ error = Null
    /\ defaultPc = "idle"
    /\ uploads = <<>>
    /\ pendingReads = {}
    /\ calls = <<>>
    /\ inflight = {}
    /\ settled = <<>>
    /\ lastSettled = 0
    /\ solo = 0
    /\ text = <<>>
    /\ blocks = <<>>
    /\ blocks2 = <<>>
    /\ fpc = "off"

Next ==
    \/ LoadDefault
    \/ \E outcome \in {"ok", "httpError", "networkError"} : DefaultFetchDone(outcome)
    \/ \E ok \in BOOLEAN : DefaultBlobDone(ok)
    \/ \E ok \in BOOLEAN : DefaultReadDone(ok)
    \/ \E files \in FileLists : HandleImageUpload(files)
    \/ \E u \in pendingReads : UploadReadDone(u, TRUE)
    \/ \E u \in pendingReads : UploadReadDone(u, FALSE)
    \/ Reanalyze
    \/ \E c \in inflight, result \in Results : AnalyzeResolved(c, result)
    \/ \E c \in inflight, err \in Thrown : AnalyzeRejected(c, err)

Spec == Init /\ [][Next]_vars

(* The formatter alone, over every text of the model's bounds. *)
InitFmt ==
    /\ image = NoImage
    /\ analysis = ""
    /\ loading = FALSE
    /\ error = Null
    /\ defaultPc = "idle"
    /\ uploads = <<>>
    /\ pendingReads = {}
    /\ calls = <<>>
    /\ inflight = {}
    /\ settled = <<>>
    /\ lastSettled = 0
    /\ solo = 0
    /\ text \in Texts
    /\ blocks = <<>>
    /\ blocks2 = <<>>
    /\ fpc = "input"

NextFmt ==
    \/ Render
    \/ Rerender

SpecFmt == InitFmt /\ [][NextFmt]_vars

----------------------------------------------------------------------------
(* Properties of the controller, checked under Spec *)

(* C1: isLoading is true only while the default load, an upload read or an *)
(* analyzer call is outstanding.                                           *)
C1_LoadingOnlyWhileOutstanding ==
    loading =>
        \/ defaultPc \in {"fetching", "blob", "reading"}
        \/ pendingReads /= {}
        \/ inflight /= {}

(* An earlier call has settled and cleared loading, a later one set it    *)
(* again and is the only thing outstanding.                               *)
C1_Witness ==
    /\ loading
    /\ defaultPc = "done"
    /\ pendingReads = {}
    /\ lastSettled /= 0
    /\ inflight /= {}

HasImagePrefix(type) ==
    Len(type) >= 6 /\ SubSeq(type, 1, 6) = <<"i", "m", "a", "g", "e", "/">>

UploadLeavesRest ==
    /\ image' = image
    /\ analysis' = analysis
    /\ loading' = loading
    /\ uploads' = uploads
    /\ pendingReads' = pendingReads
    /\ calls' = calls
    /\ inflight' = inflight

(* C2: handleUpload of a file whose type does not start with "image/"     *)
(* sets the type error, of an image file larger than 20*1024*1024 bytes   *)
(* the size error; either way no read starts, the analyzer is not called  *)
(* and image, analysisText and isLoading are unchanged. An image file of  *)
(* exactly 20*1024*1024 bytes is accepted: its read starts and no error   *)
(* is set.                                                                *)
C2_ValidationRejects ==
    [][\A f \in Files :
        HandleImageUpload(<<f>>) =>
            /\ ~HasImagePrefix(f.type) =>
                  error' = TypeErrorMsg /\ UploadLeavesRest
            /\ HasImagePrefix(f.type) /\ f.size > 20971520 =>
                  error' = SizeErrorMsg /\ UploadLeavesRest
            /\ HasImagePrefix(f.type) /\ f.size = 20971520 =>
                  /\ uploads' = Append(uploads, f)
                  /\ pendingReads' = pendingReads \cup {Len(uploads')}
                  /\ error' = error]_vars

(* The default pair is shown, then an oversized image was rejected. *)
C2_Witness ==
    /\ error = SizeErrorMsg
    /\ image = DataURI(DefaultBlob)
    /\ analysis = DEFAULT_ANALYSIS
    /\ uploads = <<>>
    /\ calls = <<>>
    /\ ~loading

CallsFrom(u) == {c \in DOMAIN calls : calls[c].from = u}

C5_ReadFailureReported ==
    [][\A u \in pendingReads :
        UploadReadDone(u, FALSE) =>
            /\ error' = ReadErrorMsg
            /\ image' = image
            /\ calls' = calls]_vars

(* C6: a call that resolves sets analysisText to its own result, whether  *)
(* or not a call started later has already resolved; starting a call      *)
(* cancels no call in flight.                                             *)
C6_LastResolvedWins ==
    [][/\ \A c \in inflight, r \in Results :
              AnalyzeResolved(c, r) => analysis' = r
       /\ Len(calls') > Len(calls) =>
              inflight' = inflight \cup {Len(calls')}]_vars

(* Two calls overlapped; the newer one resolved first and the older one   *)
(* resolved last with another text, which is the text now shown.          *)
C6_Witness ==
    /\ DOMAIN settled = {1, 2}
    /\ settled[1].ok
    /\ settled[2].ok
    /\ lastSettled = 1
    /\ settled[1].result /= settled[2].result
    /\ analysis = settled[1].result

(* C9: loadDefault ends a successful read with the default payload, the   *)
(* default analysis and isLoading false; a failed fetch, blob or read     *)
(* with errorMessage set and isLoading false; no step of it calls the     *)
(* analyzer.                                                              *)
C9_DefaultLoadMakesNoCall ==
    [][/\ DefaultReadDone(TRUE) =>
              /\ image' = DataURI(DefaultBlob)
              /\ analysis' = DEFAULT_ANALYSIS
              /\ loading' = FALSE
       /\ \/ DefaultReadDone(FALSE)
          \/ DefaultBlobDone(FALSE)
          \/ DefaultFetchDone("httpError")
          \/ DefaultFetchDone("networkError")
          => error' = LoadErrorMsg /\ loading' = FALSE
       /\ defaultPc' /= defaultPc =>
              calls' = calls /\ inflight' = inflight]_vars

C9_Witness ==
    /\ defaultPc = "done"
    /\ image = DataURI(DefaultBlob)
    /\ analysis = DEFAULT_ANALYSIS
    /\ error = Null
    /\ ~loading
    /\ calls = <<>>

(* C10, as stated: with nothing outstanding and no error, the text shown  *)
(* belongs to the image shown: the default pair, or the result of a call  *)
(* made on the current image.                                             *)
C10_TextBelongsToImage ==
    Quiescent /\ error = Null =>
        \/ image = DataURI(DefaultBlob) /\ analysis = DEFAULT_ANALYSIS
        \/ \E c \in DOMAIN settled :
              /\ settled[c].ok
              /\ settled[c].result = analysis
              /\ calls[c].img = image

(* C10, amended: with nothing outstanding and no error, the text shown is *)
(* the default analysis or the result of the call that settled last, a    *)
(* call made on the image that was shown when it started.                 *)
C10_TextIsDefaultOrLastResult ==
    Quiescent /\ error = Null =>
        \/ analysis = DEFAULT_ANALYSIS
        \/ /\ lastSettled /= 0
           /\ settled[lastSettled].ok
           /\ analysis = settled[lastSettled].result
           /\ calls[lastSettled].img = calls[lastSettled].shown

(* The text shown is the last result, of a call made on an image that is  *)
(* no longer the one shown.                                               *)
C10_Witness ==
    /\ Quiescent
    /\ error = Null
    /\ lastSettled /= 0
    /\ settled[lastSettled].ok
    /\ analysis = settled[lastSettled].result
    /\ calls[lastSettled].img /= image
    /\ image /= NoImage

----------------------------------------------------------------------------
(* Properties of the formatter, checked under SpecFmt *)

Newlines(t) == {i \in 1..Len(t) : t[i] = "\n"}

LineCount(t) == Cardinality(Newlines(t)) + 1

(* The k-th line of t: what lies between the (k-1)-th and the k-th line   *)
(* break.                                                                 *)
LineAt(t, k) ==
    LET before(p) == Cardinality({q \in Newlines(t) : q < p})
        from == CHOOSE p \in Newlines(t) \cup {0} :
                    (p = 0 /\ k = 1) \/ (p /= 0 /\ before(p) = k - 2)
        upto == CHOOSE p \in Newlines(t) \cup {Len(t) + 1} :
                    p > from /\ \A q \in Newlines(t) : q > from => p <= q
    IN SubSeq(t, from + 1, upto - 1)

(* s without its leading and trailing white space. *)
Trimmed(s) ==
    LET inked == {i \in 1..Len(s) : s[i] \notin {" ", "\t", "\r", "\n"}}
    IN IF inked = {} THEN <<>>
       ELSE SubSeq(s, CHOOSE i \in inked : \A j \in inked : i <= j,
                      CHOOSE i \in inked : \A j \in inked : j <= i)

(* The line with every * _ # and backquote removed, then trimmed. *)
Cleaned(line) ==
    Trimmed(SelectSeq(line, LAMBDA c : c \notin {"*", "_", "#", Backquote}))

Digits == {"0", "1", "2", "3", "4", "5", "6", "7", "8", "9"}

(* The block of the priority order for a non-empty cleaned line c, as     *)
(* <<kind, label, text>>.                                                 *)
ExpectedBlock(c) ==
    LET n == Len(c)
        prefixes == {k \in 1..n :
                        /\ \A i \in 1..k : c[i] \in Digits
                        /\ k < n
                        /\ c[k + 1] = "."}
        colons == {i \in 1..n : c[i] = ":"}
    IN IF prefixes /= {} THEN
            LET k == CHOOSE k \in prefixes : TRUE
            IN <<"SectionHeader", <<>>, Trimmed(SubSeq(c, k + 2, n))>>
       ELSE IF c[1] = "-" /\ colons /= {} THEN
            LET first == CHOOSE i \in colons : \A j \in colons : i <= j
            IN <<"LabeledField", Trimmed(SubSeq(c, 2, first - 1)),
                 Trimmed(SubSeq(c, first + 1, n))>>
       ELSE IF c[1] = "-" THEN
            <<"BulletItem", <<>>, Trimmed(SubSeq(c, 2, n))>>
       ELSE <<"Paragraph", <<>>, c>>

(* C7: the block of every line that is not empty once cleaned is the one  *)
(* the priority order gives for the cleaned line: section header (title   *)
(* without the "N." prefix), labeled field (split at the first colon),    *)
(* bullet item, paragraph.                                                *)
C7_BlockFollowsPriorityOrder ==
    fpc /= "input" =>
        \A k \in 1..LineCount(text) :
            LET c == Cleaned(LineAt(text, k)) IN
            c /= <<>> =>
                \E i \in DOMAIN blocks :
                    /\ blocks[i].key = k - 1
                    /\ <<blocks[i].kind, blocks[i].label, blocks[i].text>>
                           = ExpectedBlock(c)

(* A header line that also holds '-' and ':' has been formatted, as a     *)
(* section header.                                                        *)
C7_Witness ==
    /\ fpc = "rendered"
    /\ text = <<"1", ".", "-", ":">>
    /\ Len(blocks) = 1
    /\ blocks[1].kind = "SectionHeader"
    /\ blocks[1].text = <<"-", ":">>

(* C8: the output holds one block for each line that is not empty once    *)
(* cleaned, in the order of the lines, and none for the other lines; a    *)
(* second formatting of the same text yields the same blocks.             *)
C8_OneBlockPerNonEmptyLine ==
    fpc = "rerendered" =>
        /\ {blocks[i].key : i \in DOMAIN blocks}
               = {k - 1 : k \in {j \in 1..LineCount(text) :
                                    Cleaned(LineAt(text, j)) /= <<>>}}
        /\ \A i, j \in DOMAIN blocks :
               i < j => blocks[i].key < blocks[j].key
        /\ blocks2 = blocks

(* A text of three lines whose middle line is empty once cleaned. *)
C8_Witness ==
    /\ fpc = "rerendered"
    /\ text = <<"a", "\n", "*", "\n", "-">>
    /\ Len(blocks) = 2
    /\ blocks[1].key = 0
    /\ blocks[2].key = 2

====
